---- MODULE Spec2Model ----
(***************************************************************************)
(* Property valuation service (oscarjor/loanapp, valuation_service).       *)
(*                                                                         *)
(* The model covers the valuation engine (app/services/valuation_engine),  *)
(* the request contract (app/models/request), the response models          *)
(* (app/models/response) and the valuation route (app/api/routes).         *)
(*                                                                         *)
(* The specifications share the state:                                     *)
(*   SpecEngine      the engine's three methods called directly, as the    *)
(*                   unit tests call them; two calls are kept.             *)
(*   Spec            one HTTP valuation request at a time: received,       *)
(*                   validated by the request model, handled by            *)
(*                   valuate_property.                                     *)
(*   SpecHandler     valuate_property entered with any request object.     *)
(*   SpecBeyond      calculate_value beyond the request model's bounds.    *)
(*   SpecScenario    calculate_value on the unit tests' scenarios.         *)
(*   SpecConcurrent  several requests in flight at once.                   *)
(***************************************************************************)
EXTENDS Integers, Sequences, FiniteSets, TLC

\* Largest reading of the clock (datetime.utcnow()) the model explores.
MaxClock == 1

(***************************************************************************)
(* decimal.Decimal, non-negative values only.  A Decimal is                *)
(*   w  the whole part,                                                    *)
(*   f  the fractional part in ten-thousandths (0..9999),                  *)
(*   e  the number of fractional digits it carries (its exponent is -e).   *)
(* Every Decimal the engine builds has at most 4 fractional digits, so the *)
(* arithmetic below is exact, as Python's is at its 28 digit precision.    *)
(* Products are computed in halves so that no intermediate exceeds 2^31.   *)
(***************************************************************************)
Dec(w, f, e) == [w |-> w, f |-> f, e |-> e]

\* Decimal(n) for an int n >= 0
DecimalOfInt(n) == Dec(n, 0, 0)

Max2(a, b) == IF a >= b THEN a ELSE b

\* a == b on Decimals compares values, not exponents
DecEq(a, b) == a.w = b.w /\ a.f = b.f

\* a < b
DecLess(a, b) == a.w < b.w \/ (a.w = b.w /\ a.f < b.f)

\* min(a, b): Python returns the first argument unless the second is smaller
DecMin(a, b) == IF DecLess(b, a) THEN b ELSE a

\* a - b, for a >= b
DecSub(a, b) ==
    IF a.f >= b.f
    THEN Dec(a.w - b.w, a.f - b.f, Max2(a.e, b.e))
    ELSE Dec(a.w - b.w - 1, a.f + 10000 - b.f, Max2(a.e, b.e))

\* a * b: the exponents add, the value is the exact product
DecMul(a, b) ==
    LET qa == a.w \div 10000
        ra == a.w % 10000
        qb == b.w \div 10000
        rb == b.w % 10000
        x  == ra * b.f
        y  == rb * a.f
        z  == (a.f * b.f) \div 10000
        fr == (x % 10000) + (y % 10000) + z
        wh == a.w * b.w + qa * b.f + qb * a.f
                + (x \div 10000) + (y \div 10000) + (fr \div 10000)
    IN  Dec(wh, fr % 10000, a.e + b.e)

\* d.quantize(Decimal("0.01"), rounding=ROUND_HALF_UP)
QuantizeHalfUp(d) ==
    LET q == (d.f + 50) \div 100
    IN  IF q = 100 THEN Dec(d.w + 1, 0, 2) ELSE Dec(d.w, q * 100, 2)

(***************************************************************************)
(* float(d).  Every Decimal converted here has at most 15 significant      *)
(* digits, so the binary64 nearest to it prints back as the same decimal   *)
(* and two such floats are equal, or ordered, exactly as their decimals    *)
(* are.  A float is therefore represented by that decimal; the Decimal's   *)
(* exponent (trailing zeros) is lost in the conversion.                    *)
(***************************************************************************)
ToFloat(d) == [w |-> d.w, f |-> d.f]

FloatLess(x, y) == x.w < y.w \/ (x.w = y.w /\ x.f < y.f)

FloatLeq(x, y) == x = y \/ FloatLess(x, y)

FloatZero == [w |-> 0, f |-> 0]

FloatOne == [w |-> 1, f |-> 0]

(***************************************************************************)
(* Text formatting used by the methodology string.                         *)
(***************************************************************************)
\* the first e digits of a fraction f given in ten-thousandths
FracDigits(f, e) ==
    LET d1 == ToString(f \div 1000)
        d2 == ToString((f \div 100) % 10)
        d3 == ToString((f \div 10) % 10)
        d4 == ToString(f % 10)
    IN  CASE e = 1 -> d1
          [] e = 2 -> d1 \o d2
          [] e = 3 -> d1 \o d2 \o d3
          [] OTHER -> d1 \o d2 \o d3 \o d4

\* the rate printed as a currency amount, with two decimals
DecStrTwoPlaces(d) == ToString(d.w) \o "." \o FracDigits(d.f, 2)

\* str(d) for a Decimal d, as the f-string "{base_rate}" prints it
DecStr(d) ==
    IF d.e = 0 THEN ToString(d.w) ELSE ToString(d.w) \o "." \o FracDigits(d.f, d.e)

\* f"{float(d) * 100:.1f}": the percentage with one decimal place
FormatPercent1(d) ==
    LET tenths == d.w * 1000 + ((d.f + 5) \div 10)
    IN  ToString(tenths \div 10) \o "." \o ToString(tenths % 10)

(***************************************************************************)
(* app/models/request.py and app/models/response.py                        *)
(***************************************************************************)
\* class PropertyType(str, Enum): each member equals, and hashes as, its value
PropertyType == {"MULTIFAMILY", "RETAIL", "OFFICE", "INDUSTRIAL"}

\* What a call does: it returns a value or raises an exception.
Return(v) == [kind |-> "return", msg |-> "", value |-> v]

NoValue == [none |-> TRUE]

Raise(exc, text) == [kind |-> exc, msg |-> text, value |-> NoValue]

\* ValuationBreakdown(...): depreciation_factor has ge=0, le=1
ValuationBreakdown(base_value, depreciation_factor, final_value) ==
    IF FloatLeq(FloatZero, depreciation_factor) /\ FloatLeq(depreciation_factor, FloatOne)
    THEN Return([base_value |-> base_value,
                 depreciation_factor |-> depreciation_factor,
                 final_value |-> final_value])
    ELSE Raise("ValidationError", "depreciation_factor")

\* ValuationResponse(...): estimated_value has gt=0
ValuationResponse(estimated_value, valuation_date, methodology, breakdown) ==
    IF FloatLess(FloatZero, estimated_value)
    THEN Return([estimated_value |-> estimated_value,
                 valuation_date |-> valuation_date,
                 methodology |-> methodology,
                 breakdown |-> breakdown])
    ELSE Raise("ValidationError", "estimated_value")

(***************************************************************************)
(* app/services/valuation_engine.py                                        *)
(***************************************************************************)
\* the rate table with the rates of RETAIL and OFFICE exchanged
BaseRatesExchanged ==
    [t \in PropertyType |->
        CASE t = "MULTIFAMILY" -> Dec(200, 0, 0)
          [] t = "RETAIL"      -> Dec(180, 0, 0)
          [] t = "OFFICE"      -> Dec(150, 0, 0)
          [] t = "INDUSTRIAL"  -> Dec(100, 0, 0)]

\* the rate table with INDUSTRIAL priced above every other type
BaseRatesIndustrialPremium ==
    [t \in PropertyType |->
        CASE t = "MULTIFAMILY" -> Dec(200, 0, 0)
          [] t = "RETAIL"      -> Dec(150, 0, 0)
          [] t = "OFFICE"      -> Dec(180, 0, 0)
          [] t = "INDUSTRIAL"  -> Dec(400, 0, 0)]

\* the rate table keyed by keys that no request string equals or hashes as
BaseRatesKeyedApart ==
    [t \in {"PropertyType.MULTIFAMILY", "PropertyType.RETAIL",
            "PropertyType.OFFICE", "PropertyType.INDUSTRIAL"} |->
        CASE t = "PropertyType.MULTIFAMILY" -> Dec(200, 0, 0)
          [] t = "PropertyType.RETAIL"      -> Dec(150, 0, 0)
          [] t = "PropertyType.OFFICE"      -> Dec(180, 0, 0)
          [] t = "PropertyType.INDUSTRIAL"  -> Dec(100, 0, 0)]

\* BASE_RATES: dollars per square foot, keyed by property type
BASE_RATES ==
    [t \in PropertyType |->
        CASE t = "MULTIFAMILY" -> Dec(200, 0, 0)
          [] t = "RETAIL"      -> Dec(150, 0, 0)
          [] t = "OFFICE"      -> Dec(180, 0, 0)
          [] t = "INDUSTRIAL"  -> Dec(100, 0, 0)]

\* MAX_DEPRECIATION = Decimal("0.40")
MAX_DEPRECIATION == Dec(0, 4000, 2)

\* ANNUAL_DEPRECIATION = Decimal("0.01")
ANNUAL_DEPRECIATION == Dec(0, 100, 2)

\* The class attributes of ValuationEngine, which every call reads.
EngineAttributes ==
    [BASE_RATES |-> BASE_RATES,
     MAX_DEPRECIATION |-> MAX_DEPRECIATION,
     ANNUAL_DEPRECIATION |-> ANNUAL_DEPRECIATION]

\* the factor with the cap left out
DepreciationUncapped(eng, age_years) ==
    DecMul(DecimalOfInt(age_years), eng.ANNUAL_DEPRECIATION)

\* the factor capped one year late, at 41 years
DepreciationCappedLate(eng, age_years) ==
    DecMin(DecMul(DecimalOfInt(age_years), eng.ANNUAL_DEPRECIATION),
           Dec(0, 4100, 2))

\* the factor counting the year of construction as a first year of age
DepreciationFromFirstYear(eng, age_years) ==
    DecMin(DecMul(DecimalOfInt(age_years + 1), eng.ANNUAL_DEPRECIATION),
           eng.MAX_DEPRECIATION)

\* min(Decimal(age_years) * ANNUAL_DEPRECIATION, MAX_DEPRECIATION)
DepreciationFactor(eng, age_years) ==
    DecMin(DecMul(DecimalOfInt(age_years), eng.ANNUAL_DEPRECIATION),
           eng.MAX_DEPRECIATION)

\* calculate_depreciation with a cap of its own, 0.50
CalculateDepreciationOwnCap(eng, age_years) ==
    IF age_years < 0
    THEN Raise("ValueError", "Property age cannot be negative")
    ELSE Return(DecMin(DecMul(DecimalOfInt(age_years), eng.ANNUAL_DEPRECIATION),
                       Dec(0, 5000, 2)))

\* ValuationEngine.calculate_depreciation
CalculateDepreciation(eng, age_years) ==
    IF age_years < 0
    THEN Raise("ValueError", "Property age cannot be negative")
    ELSE Return(DepreciationFactor(eng, age_years))

\* ValuationEngine.get_base_rate: self.BASE_RATES[property_type]
GetBaseRate(eng, property_type) ==
    IF property_type \in DOMAIN eng.BASE_RATES
    THEN Return(eng.BASE_RATES[property_type])
    ELSE Raise("KeyError", property_type)

\* the methodology f-string
Methodology(base_rate, depreciation_factor) ==
    "Base rate ($" \o DecStr(base_rate) \o "/sqft) with "
        \o FormatPercent1(depreciation_factor) \o "% age depreciation"

\* the input checks with the size check off by one (size_sqft < 0)
CheckInputsSizeOffByOne(size_sqft, age_years) ==
    IF size_sqft < 0
    THEN Raise("ValueError", "Property size must be greater than 0")
    ELSE IF age_years < 0
    THEN Raise("ValueError", "Property age cannot be negative")
    ELSE Return(TRUE)

\* the input checks with the request model's upper bounds repeated in them
CheckInputsWithUpperBounds(size_sqft, age_years) ==
    IF size_sqft <= 0
    THEN Raise("ValueError", "Property size must be greater than 0")
    ELSE IF size_sqft > 10000000
    THEN Raise("ValueError", "Property size exceeds maximum allowed (10M sqft)")
    ELSE IF age_years < 0
    THEN Raise("ValueError", "Property age cannot be negative")
    ELSE IF age_years > 200
    THEN Raise("ValueError", "Property age exceeds reasonable limit (200 years)")
    ELSE Return(TRUE)

\* the input checks made in the other order, age first
CheckInputsAgeFirst(size_sqft, age_years) ==
    IF age_years < 0
    THEN Raise("ValueError", "Property age cannot be negative")
    ELSE IF size_sqft <= 0
    THEN Raise("ValueError", "Property size must be greater than 0")
    ELSE Return(TRUE)

\* calculate_value's own input checks: size first, then age
CheckInputs(size_sqft, age_years) ==
    IF size_sqft <= 0
    THEN Raise("ValueError", "Property size must be greater than 0")
    ELSE IF age_years < 0
    THEN Raise("ValueError", "Property age cannot be negative")
    ELSE Return(TRUE)

\* base_value = Decimal(size_sqft) * base_rate
BaseValue(size_sqft, base_rate) == DecMul(DecimalOfInt(size_sqft), base_rate)

\* the estimate with the rounding step truncating to whole dollars
EstimatedValueTruncated(base_value, depreciation_factor) ==
    LET v == DecMul(base_value, DecSub(Dec(1, 0, 0), depreciation_factor))
    IN  Dec(v.w, 0, 2)

\* the estimate taken as the depreciated part, the "1 -" left out
EstimatedValueOfLoss(base_value, depreciation_factor) ==
    QuantizeHalfUp(DecMul(base_value, depreciation_factor))

\* estimated_value = base_value * (Decimal("1") - depreciation_factor), rounded
EstimatedValue(base_value, depreciation_factor) ==
    QuantizeHalfUp(DecMul(base_value, DecSub(Dec(1, 0, 0), depreciation_factor)))

\* ValuationEngine.calculate_value, with now the reading of datetime.utcnow()
CalculateValue(eng, now, property_type, size_sqft, age_years) ==
    IF CheckInputs(size_sqft, age_years).kind # "return"
    THEN CheckInputs(size_sqft, age_years)
    ELSE IF property_type \notin DOMAIN eng.BASE_RATES
    THEN Raise("KeyError", property_type)
    ELSE
      LET base_rate == eng.BASE_RATES[property_type]
          base_value == BaseValue(size_sqft, base_rate)
          depreciation_factor == DepreciationFactor(eng, age_years)
          estimated_value == EstimatedValue(base_value, depreciation_factor)
          rounded_base == QuantizeHalfUp(base_value)
          breakdown == ValuationBreakdown(ToFloat(rounded_base),
                                          ToFloat(depreciation_factor),
                                          ToFloat(estimated_value))
      IN  IF breakdown.kind # "return"
          THEN breakdown
          ELSE ValuationResponse(ToFloat(estimated_value), now,
                                 Methodology(base_rate, depreciation_factor),
                                 breakdown.value)

(***************************************************************************)
(* app/models/request.py: ValuationRequest                                 *)
(***************************************************************************)
\* the largest size_sqft validate_size lets through
MaxSizeSqft == 10000000

\* the largest age_years validate_age lets through
MaxAgeYears == 200

\* validate_size with the upper comparison off by one (v >= 10_000_000)
ValidateSizeBelowMax(v) ==
    IF v <= 0
    THEN Raise("ValueError", "Property size must be greater than 0")
    ELSE IF v >= 10000000
    THEN Raise("ValueError", "Property size exceeds maximum allowed (10M sqft)")
    ELSE Return(v)

\* @field_validator('size_sqft')
ValidateSize(v) ==
    IF v <= 0
    THEN Raise("ValueError", "Property size must be greater than 0")
    ELSE IF v > MaxSizeSqft
    THEN Raise("ValueError", "Property size exceeds maximum allowed (10M sqft)")
    ELSE Return(v)

\* @field_validator('age_years')
ValidateAge(v) ==
    IF v < 0
    THEN Raise("ValueError", "Property age cannot be negative")
    ELSE IF v > MaxAgeYears
    THEN Raise("ValueError", "Property age exceeds reasonable limit (200 years)")
    ELSE Return(v)

\* One error of a ValidationError: the field, the kind of failure, and the text
\* of the ValueError a field validator raised ("" when no validator ran).
FieldError(loc, type, raised) == [loc |-> loc, type |-> type, raised |-> raised]

\* property_type: PropertyType = Field(...): the value must be a member's value
PropertyTypeErrors(v) ==
    IF v \in PropertyType THEN <<>> ELSE <<FieldError("property_type", "enum", "")>>

\* size_sqft: int = Field(..., gt=0), then validate_size on what passed gt=0
SizeErrors(v) ==
    IF ~(v > 0)
    THEN <<FieldError("size_sqft", "greater_than", "")>>
    ELSE IF ValidateSize(v).kind = "return"
    THEN <<>>
    ELSE <<FieldError("size_sqft", "value_error", ValidateSize(v).msg)>>

\* age_years: int = Field(..., ge=0), then validate_age on what passed ge=0
AgeErrors(v) ==
    IF ~(v >= 0)
    THEN <<FieldError("age_years", "greater_than_equal", "")>>
    ELSE IF ValidateAge(v).kind = "return"
    THEN <<>>
    ELSE <<FieldError("age_years", "value_error", ValidateAge(v).msg)>>

\* ValuationRequest(**body): the errors of all fields, in field order
ValidationErrors(body) ==
    PropertyTypeErrors(body.property_type)
        \o SizeErrors(body.size_sqft)
        \o AgeErrors(body.age_years)

(***************************************************************************)
(* State                                                                   *)
(***************************************************************************)
VARIABLES
    engine,       \* the class attributes of the one ValuationEngine
    clock,        \* the current time, as datetime.utcnow() reads it
    last,         \* the latest call of an engine method: arguments and outcome
    prev,         \* an earlier call
    request,      \* the body of the HTTP request being served
    pc,           \* where the request is: idle, validating, handling, done
    response,     \* the HTTP response to it
    invocations,  \* calls of calculate_value made for the request
    flights       \* the requests served concurrently, by flight number

vars == <<engine, clock, last, prev, request, pc, response, invocations, flights>>

NoCall == [age_years |-> 0, property_type |-> "", size_sqft |-> 0, op |-> "none",
           outcome |-> Raise("none", "")]

NoRequest == [age_years |-> 0, property_type |-> "", size_sqft |-> 0]

NoResponse == [body |-> NoValue, status_code |-> 0, errors |-> <<>>, detail |-> ""]

\* Requests served at the same time by the one process.
NumFlights == 2

Flights == 1 .. NumFlights

IdleFlight == [body |-> NoRequest, pc |-> "idle", response |-> NoResponse]

Init ==
    /\ engine = EngineAttributes
    /\ clock = 0
    /\ last = NoCall
    /\ prev = NoCall
    /\ request = NoRequest
    /\ pc = "idle"
    /\ response = NoResponse
    /\ invocations = 0
    /\ flights = [i \in Flights |-> IdleFlight]

\* Time passes.
Tick ==
    /\ clock < MaxClock
    /\ clock' = clock + 1
    /\ UNCHANGED <<engine, last, prev, request, pc, response, invocations, flights>>

(***************************************************************************)
(* The engine called directly                                              *)
(***************************************************************************)
EngineTypes == PropertyType \cup {"RESIDENTIAL"}

EngineSizes == {0, 7, 10000000}

EngineAges == {-1, 0, 15, 40, 250}

\* The record of calls: last becomes the call being made; prev stays the
\* earlier call it holds or becomes the call that was last, so that prev and
\* last range over every two calls of a run, adjacent or not.
Remember == \E keep \in BOOLEAN : prev' = IF keep THEN prev ELSE last

Call(op, property_type, size_sqft, age_years, outcome) ==
    [age_years |-> age_years, property_type |-> property_type,
     size_sqft |-> size_sqft, op |-> op, outcome |-> outcome]

\* the call leaving the cap of the shared engine lowered to the factor it
\* computed (an in-place min on the class attribute)
CallCalculateValueLoweringCap(property_type, size_sqft, age_years) ==
    /\ last' = Call("calculate_value", property_type, size_sqft, age_years,
                    CalculateValue(engine, clock, property_type, size_sqft, age_years))
    /\ Remember
    /\ engine' = IF age_years >= 0
                 THEN [engine EXCEPT !.MAX_DEPRECIATION =
                                         DepreciationFactor(engine, age_years)]
                 ELSE engine
    /\ UNCHANGED <<clock, request, pc, response, invocations, flights>>

\* engine.calculate_value(property_type, size_sqft, age_years)
CallCalculateValue(property_type, size_sqft, age_years) ==
    /\ last' = Call("calculate_value", property_type, size_sqft, age_years,
                    CalculateValue(engine, clock, property_type, size_sqft, age_years))
    /\ Remember
    /\ UNCHANGED <<engine, clock, request, pc, response, invocations, flights>>

\* engine.get_base_rate(property_type)
CallGetBaseRate(property_type) ==
    /\ last' = Call("get_base_rate", property_type, 0, 0,
                    GetBaseRate(engine, property_type))
    /\ Remember
    /\ UNCHANGED <<engine, clock, request, pc, response, invocations, flights>>

\* engine.calculate_depreciation(age_years)
CallCalculateDepreciation(age_years) ==
    /\ last' = Call("calculate_depreciation", "", 0, age_years,
                    CalculateDepreciation(engine, age_years))
    /\ Remember
    /\ UNCHANGED <<engine, clock, request, pc, response, invocations, flights>>

NextEngine ==
    \/ Tick
    \/ \E t \in EngineTypes, s \in EngineSizes, a \in EngineAges :
          CallCalculateValue(t, s, a)
    \/ \E t \in EngineTypes : CallGetBaseRate(t)
    \/ \E a \in EngineAges : CallCalculateDepreciation(a)

SpecEngine == Init /\ [][NextEngine]_vars

(***************************************************************************)
(* app/api/routes.py: POST /api/v1/valuate                                 *)
(***************************************************************************)
RequestTypes == PropertyType \cup {"RESIDENTIAL", "multifamily"}

RequestSizes == {-1, 0, 1, 10000000, 10000001}

RequestAges == {-1, 0, 200, 201}

\* ValueError and its subclasses (pydantic's ValidationError is one)
IsValueError(kind) == kind \in {"ValueError", "ValidationError"}

\* A request body arrives.
Receive(body) ==
    /\ pc = "idle"
    /\ request' = body
    /\ pc' = "validating"
    /\ invocations' = 0
    /\ response' = NoResponse
    /\ UNCHANGED <<engine, clock, last, prev, flights>>

\* the handler reached with the body as it came, whatever validation found
ValidateAcceptUnchecked ==
    /\ pc = "validating"
    /\ pc' = "handling"
    /\ UNCHANGED <<engine, clock, last, prev, request, response, invocations, flights>>

\* request: ValuationRequest -- the body passes the request model
ValidateAccept ==
    /\ pc = "validating"
    /\ ValidationErrors(request) = <<>>
    /\ pc' = "handling"
    /\ UNCHANGED <<engine, clock, last, prev, request, response, invocations, flights>>

\* request: ValuationRequest -- the body fails it: 422, valuate_property not run
ValidateReject ==
    /\ pc = "validating"
    /\ ValidationErrors(request) # <<>>
    /\ response' = [body |-> NoValue, status_code |-> 422,
                    errors |-> ValidationErrors(request), detail |-> ""]
    /\ pc' = "done"
    /\ UNCHANGED <<engine, clock, last, prev, request, invocations, flights>>

\* the handler putting the text of an unexpected failure into the 500 response
HandlerResponseLeaking(outcome) ==
    IF outcome.kind = "return"
    THEN [body |-> outcome.value, status_code |-> 200, errors |-> <<>>, detail |-> ""]
    ELSE IF IsValueError(outcome.kind)
    THEN [body |-> NoValue, status_code |-> 422, errors |-> <<>>, detail |-> outcome.msg]
    ELSE [body |-> NoValue, status_code |-> 500, errors |-> <<>>, detail |-> outcome.msg]

\* the handler with "except Exception" alone: every failure answered as 500
HandlerResponseAllInternal(outcome) ==
    IF outcome.kind = "return"
    THEN [body |-> outcome.value, status_code |-> 200, errors |-> <<>>, detail |-> ""]
    ELSE [body |-> NoValue, status_code |-> 500, errors |-> <<>>,
          detail |-> "Internal server error during valuation calculation"]

\* the handler answering a success with the estimated value alone
HandlerResponseBareValue(outcome) ==
    IF outcome.kind = "return"
    THEN [body |-> [estimated_value |-> outcome.value.estimated_value],
          status_code |-> 200, errors |-> <<>>, detail |-> ""]
    ELSE IF IsValueError(outcome.kind)
    THEN [body |-> NoValue, status_code |-> 422, errors |-> <<>>, detail |-> outcome.msg]
    ELSE [body |-> NoValue, status_code |-> 500, errors |-> <<>>,
          detail |-> "Internal server error during valuation calculation"]

\* what valuate_property answers for the outcome of calculate_value
HandlerResponse(outcome) ==
    IF outcome.kind = "return"
    THEN [body |-> outcome.value, status_code |-> 200, errors |-> <<>>, detail |-> ""]
    ELSE IF IsValueError(outcome.kind)
    THEN [body |-> NoValue, status_code |-> 422, errors |-> <<>>, detail |-> outcome.msg]
    ELSE [body |-> NoValue, status_code |-> 500, errors |-> <<>>,
          detail |-> "Internal server error during valuation calculation"]

\* valuate_property(request)
ValuateProperty ==
    /\ pc = "handling"
    /\ LET outcome == CalculateValue(engine, clock, request.property_type,
                                     request.size_sqft, request.age_years)
       IN  /\ last' = Call("calculate_value", request.property_type,
                           request.size_sqft, request.age_years, outcome)
           /\ Remember
           /\ response' = HandlerResponse(outcome)
    /\ invocations' = invocations + 1
    /\ pc' = "done"
    /\ UNCHANGED <<engine, clock, request, flights>>

\* The response is sent; the request object is discarded.
Respond ==
    /\ pc = "done"
    /\ pc' = "idle"
    /\ request' = NoRequest
    /\ response' = NoResponse
    /\ invocations' = 0
    /\ UNCHANGED <<engine, clock, last, prev, flights>>

Next ==
    \/ Tick
    \/ \E t \in RequestTypes, s \in RequestSizes, a \in RequestAges :
          Receive([age_years |-> a, property_type |-> t, size_sqft |-> s])
    \/ ValidateAccept
    \/ ValidateReject
    \/ ValuateProperty
    \/ Respond

Spec == Init /\ [][Next]_vars

(***************************************************************************)
(* valuate_property called with a request object as it is, validated or    *)
(* not: the handler is a plain function of its argument, and its except    *)
(* branches are reached only by requests the request model would refuse.   *)
(***************************************************************************)
HandlerTypes == {"OFFICE", "RESIDENTIAL", "multifamily"}

HandlerSizes == {0, 7}

HandlerAges == {-1, 15}

\* valuate_property(request) is entered with the given request object
EnterHandler(body) ==
    /\ pc = "idle"
    /\ request' = body
    /\ pc' = "handling"
    /\ invocations' = 0
    /\ response' = NoResponse
    /\ UNCHANGED <<engine, clock, last, prev, flights>>

NextHandler ==
    \/ Tick
    \/ \E t \in HandlerTypes, s \in HandlerSizes, a \in HandlerAges :
          EnterHandler([age_years |-> a, property_type |-> t, size_sqft |-> s])
    \/ ValuateProperty
    \/ Respond

SpecHandler == Init /\ [][NextHandler]_vars

(***************************************************************************)
(* calculate_value called directly with sizes and ages on both sides of    *)
(* the request model's upper bounds.                                       *)
(***************************************************************************)
BeyondSizes == {7, 10000001}

BeyondAges == {0, 200, 201, 250}

NextBeyond ==
    \/ Tick
    \/ \E t \in PropertyType, s \in BeyondSizes, a \in BeyondAges :
          CallCalculateValue(t, s, a)

SpecBeyond == Init /\ [][NextBeyond]_vars

(***************************************************************************)
(* calculate_value called directly with the inputs of the unit tests'      *)
(* scenarios: sizes whose products are not round, and buildings of         *)
(* different types compared at the same size.                              *)
(***************************************************************************)
ScenarioTypes == {"INDUSTRIAL", "MULTIFAMILY", "OFFICE"}

ScenarioSizes == {1, 3333, 100000}

ScenarioAges == {0, 7, 50}

NextScenario ==
    \/ Tick
    \/ \E t \in ScenarioTypes, s \in ScenarioSizes, a \in ScenarioAges :
          CallCalculateValue(t, s, a)

SpecScenario == Init /\ [][NextScenario]_vars

(***************************************************************************)
(* Several requests in flight at once, all served by the module-level      *)
(* valuation_engine.  valuate_property has no await in it, so each run of  *)
(* the handler is one step; the steps of different requests interleave     *)
(* freely.                                                                 *)
(***************************************************************************)
ConcurrentTypes == {"MULTIFAMILY", "INDUSTRIAL", "RESIDENTIAL"}

ConcurrentSizes == {0, 7}

ConcurrentAges == {15, 40, 201}

\* A request body arrives on flight i.
ReceiveFlight(i, body) ==
    /\ flights[i].pc = "idle"
    /\ flights' = [flights EXCEPT ![i] =
                      [body |-> body, pc |-> "validating", response |-> NoResponse]]
    /\ UNCHANGED <<engine, clock, last, prev, request, pc, response, invocations>>

\* The body of flight i passes the request model.
ValidateFlightAccept(i) ==
    /\ flights[i].pc = "validating"
    /\ ValidationErrors(flights[i].body) = <<>>
    /\ flights' = [flights EXCEPT ![i].pc = "handling"]
    /\ UNCHANGED <<engine, clock, last, prev, request, pc, response, invocations>>

\* The body of flight i fails the request model: 422.
ValidateFlightReject(i) ==
    /\ flights[i].pc = "validating"
    /\ ValidationErrors(flights[i].body) # <<>>
    /\ flights' = [flights EXCEPT
                      ![i].pc = "done",
                      ![i].response =
                          [body |-> NoValue, status_code |-> 422,
                           errors |-> ValidationErrors(flights[i].body),
                           detail |-> ""]]
    /\ UNCHANGED <<engine, clock, last, prev, request, pc, response, invocations>>

\* what the handler answers on flight i, reading the shared engine and the clock
FlightResponse(i) ==
    HandlerResponse(CalculateValue(engine, clock, flights[i].body.property_type,
                                   flights[i].body.size_sqft,
                                   flights[i].body.age_years))

\* the handler leaving the cap of the shared engine lowered to the factor of
\* the request it served
ValuateFlightLoweringCap(i) ==
    /\ flights[i].pc = "handling"
    /\ flights' = [flights EXCEPT ![i].pc = "done", ![i].response = FlightResponse(i)]
    /\ engine' = [engine EXCEPT !.MAX_DEPRECIATION =
                                    DepreciationFactor(engine, flights[i].body.age_years)]
    /\ UNCHANGED <<clock, last, prev, request, pc, response, invocations>>

\* valuate_property(request) on flight i
ValuateFlight(i) ==
    /\ flights[i].pc = "handling"
    /\ flights' = [flights EXCEPT ![i].pc = "done", ![i].response = FlightResponse(i)]
    /\ UNCHANGED <<engine, clock, last, prev, request, pc, response, invocations>>

\* The response of flight i is sent.
RespondFlight(i) ==
    /\ flights[i].pc = "done"
    /\ flights' = [flights EXCEPT ![i] = IdleFlight]
    /\ UNCHANGED <<engine, clock, last, prev, request, pc, response, invocations>>

NextConcurrent ==
    \/ Tick
    \/ \E i \in Flights, t \in ConcurrentTypes, s \in ConcurrentSizes,
          a \in ConcurrentAges :
          ReceiveFlight(i, [age_years |-> a, property_type |-> t, size_sqft |-> s])
    \/ \E i \in Flights : ValidateFlightAccept(i)
    \/ \E i \in Flights : ValidateFlightReject(i)
    \/ \E i \in Flights : ValuateFlight(i)
    \/ \E i \in Flights : RespondFlight(i)

SpecConcurrent == Init /\ [][NextConcurrent]_vars

(***************************************************************************)
(* Properties                                                              *)
(***************************************************************************)
\* The rate table as the specification states it, in dollars per square foot.
StatedRate(t) ==
    CASE t = "MULTIFAMILY" -> 200
      [] t = "RETAIL"      -> 150
      [] t = "OFFICE"      -> 180
      [] t = "INDUSTRIAL"  -> 100
      [] OTHER             -> 0

MinOf(a, b) == IF a <= b THEN a ELSE b

\* A valid input: one of the four types, 0 < size <= 10,000,000, 0 <= age <= 200.
ValidInput(t, s, a) ==
    /\ t \in {"MULTIFAMILY", "RETAIL", "OFFICE", "INDUSTRIAL"}
    /\ 0 < s /\ s <= 10000000
    /\ 0 <= a /\ a <= 200

\* b x (1 - d) rounded half-up to 2 decimals, for a whole amount b and a
\* factor d <= 1, both given as the result carries them
RoundedProduct(b, d) ==
    LET k  == 10000 - (d.w * 10000 + d.f)
        lo == (b.w % 10000) * k
        w  == (b.w \div 10000) * k + (lo \div 10000)
        c  == ((lo % 10000) + 50) \div 100
    IN  IF c = 100 THEN [w |-> w + 1, f |-> 0] ELSE [w |-> w, f |-> c * 100]

Returned(c) == c.outcome.kind = "return"

IsCalc(c) == c.op = "calculate_value"

\* C1: for every valid input calculate_value returns a result whose
\* estimated_value equals breakdown.final_value, whose base_value is
\* size_sqft x rate(property_type), and whose final_value is
\* base_value x (1 - depreciation_factor) rounded half-up to 2 decimals.
C1_ValueFormula ==
    (IsCalc(last) /\ ValidInput(last.property_type, last.size_sqft, last.age_years)) =>
        /\ Returned(last)
        /\ LET r == last.outcome.value
           IN  /\ r.estimated_value = r.breakdown.final_value
               /\ r.breakdown.base_value =
                      [w |-> last.size_sqft * StatedRate(last.property_type), f |-> 0]
               /\ r.breakdown.final_value =
                      RoundedProduct(r.breakdown.base_value,
                                     r.breakdown.depreciation_factor)

\* a valid, depreciated valuation whose value has cents: RETAIL, 7 sqft, 15 years
C1_Witness ==
    /\ IsCalc(last) /\ Returned(last)
    /\ ValidInput(last.property_type, last.size_sqft, last.age_years)
    /\ last.age_years = 15
    /\ last.outcome.value.estimated_value = [w |-> 892, f |-> 5000]

IsDep(c) == c.op = "calculate_depreciation"

\* the factor min(age x 0.01, 0.40), as a value
StatedFactor(a) == [w |-> 0, f |-> MinOf(a, 40) * 100]

\* C2: for every age_years >= 0, calculate_depreciation(age_years) equals
\* min(age_years x 0.01, 0.40); over two calls the factor is strictly
\* increasing in age while the older age is at most 40, and is the same 0.40
\* for any two ages >= 40.
C2_Depreciation ==
    /\ (IsDep(last) /\ last.age_years >= 0) =>
          /\ Returned(last)
          /\ ToFloat(last.outcome.value) = StatedFactor(last.age_years)
    /\ (IsDep(prev) /\ IsDep(last) /\ prev.age_years >= 0 /\ last.age_years >= 0) =>
          /\ (prev.age_years < last.age_years /\ last.age_years <= 40) =>
                DecLess(prev.outcome.value, last.outcome.value)
          /\ (prev.age_years >= 40 /\ last.age_years >= 40) =>
                /\ DecEq(prev.outcome.value, last.outcome.value)
                /\ DecEq(last.outcome.value, Dec(0, 4000, 2))

\* the factor of a 40 year old building, then that of a 250 year old one
C2_Witness ==
    /\ IsDep(prev) /\ IsDep(last)
    /\ prev.age_years = 40 /\ last.age_years = 250
    /\ Returned(prev) /\ Returned(last)

Est(c) == c.outcome.value.estimated_value

Factor(c) == c.outcome.value.breakdown.depreciation_factor

\* two successive valuations of the same type and size that both returned
SameProperty(c, d) ==
    /\ IsCalc(c) /\ IsCalc(d)
    /\ Returned(c) /\ Returned(d)
    /\ c.property_type = d.property_type
    /\ c.size_sqft = d.size_sqft

\* C5: for a fixed type and size the estimated value is non-increasing in
\* age and the depreciation factor non-decreasing: for ages a <= b, the value
\* at a is >= the value at b and the factor at a is <= the factor at b.
C5_Monotone ==
    /\ (SameProperty(prev, last) /\ prev.age_years <= last.age_years) =>
          /\ FloatLeq(Est(last), Est(prev))
          /\ FloatLeq(Factor(prev), Factor(last))
    /\ (SameProperty(prev, last) /\ last.age_years <= prev.age_years) =>
          /\ FloatLeq(Est(prev), Est(last))
          /\ FloatLeq(Factor(last), Factor(prev))

\* a building valued at 15 years and then at 40 years, the value having dropped
C5_Witness ==
    /\ SameProperty(prev, last)
    /\ prev.age_years = 15 /\ last.age_years = 40
    /\ FloatLess(Est(last), Est(prev))

\* C6 as stated: for all ages a < b the value at a is strictly higher than
\* the value at b.
C6_StrictlyHigher ==
    /\ (SameProperty(prev, last) /\ prev.age_years < last.age_years) =>
          FloatLess(Est(last), Est(prev))
    /\ (SameProperty(prev, last) /\ last.age_years < prev.age_years) =>
          FloatLess(Est(prev), Est(last))

\* C6 amended: for all ages a < b with a < 40 the value at a is strictly
\* higher than the value at b; for 40 <= a < b the two values are equal.
C6_StrictBelowCap ==
    /\ (SameProperty(prev, last) /\ prev.age_years < last.age_years) =>
          IF prev.age_years < 40
          THEN FloatLess(Est(last), Est(prev))
          ELSE Est(last) = Est(prev)
    /\ (SameProperty(prev, last) /\ last.age_years < prev.age_years) =>
          IF last.age_years < 40
          THEN FloatLess(Est(prev), Est(last))
          ELSE Est(prev) = Est(last)

\* a building valued at 40 years and then at 250 years, at the same value
C6_Witness ==
    /\ SameProperty(prev, last)
    /\ prev.age_years = 40 /\ last.age_years = 250
    /\ Est(prev) = Est(last)

\* C7: with a valid property type, calculate_value raises ValueError exactly
\* when size_sqft <= 0 or age_years < 0, with the size message when
\* size_sqft <= 0 and the age message when only the age is negative, and
\* returns no result in either case; otherwise it returns a result.
C7_InvalidInput ==
    (IsCalc(last) /\ last.property_type \in PropertyType) =>
        /\ IsValueError(last.outcome.kind) <=>
              (last.size_sqft <= 0 \/ last.age_years < 0)
        /\ last.size_sqft <= 0 =>
              /\ last.outcome.kind = "ValueError"
              /\ last.outcome.msg = "Property size must be greater than 0"
        /\ (last.size_sqft > 0 /\ last.age_years < 0) =>
              /\ last.outcome.kind = "ValueError"
              /\ last.outcome.msg = "Property age cannot be negative"
        /\ IsValueError(last.outcome.kind) => last.outcome.value = NoValue
        /\ ~IsValueError(last.outcome.kind) => Returned(last)

\* a call with a valid type and size and a negative age, refused
C7_Witness ==
    /\ IsCalc(last) /\ last.property_type \in PropertyType
    /\ last.size_sqft > 0 /\ last.age_years < 0
    /\ last.outcome.kind = "ValueError"

\* C8 as stated: calculate_value (its size and age being acceptable) and
\* get_base_rate, given a property type that is not one of the four, raise
\* the same kind of failure as for a bad size or age, a ValueError.
C8_UnknownTypeIsInvalidInput ==
    /\ (IsCalc(last) /\ last.property_type \notin PropertyType
            /\ last.size_sqft > 0 /\ last.age_years >= 0) =>
          IsValueError(last.outcome.kind)
    /\ (last.op = "get_base_rate" /\ last.property_type \notin PropertyType) =>
          IsValueError(last.outcome.kind)

\* C10: two calls of calculate_value with identical inputs produce the same
\* estimated_value, base_value and depreciation_factor (or the same failure),
\* whatever the time of each call and whatever was called before them.
C10_Idempotent ==
    (IsCalc(prev) /\ IsCalc(last)
        /\ prev.property_type = last.property_type
        /\ prev.size_sqft = last.size_sqft
        /\ prev.age_years = last.age_years) =>
        /\ prev.outcome.kind = last.outcome.kind
        /\ prev.outcome.msg = last.outcome.msg
        /\ Returned(last) =>
              /\ Est(prev) = Est(last)
              /\ prev.outcome.value.breakdown.base_value =
                     last.outcome.value.breakdown.base_value
              /\ Factor(prev) = Factor(last)

\* the same valuation made twice, at two different times
C10_Witness ==
    /\ IsCalc(prev) /\ IsCalc(last) /\ Returned(prev) /\ Returned(last)
    /\ prev.property_type = last.property_type
    /\ prev.size_sqft = last.size_sqft
    /\ prev.age_years = last.age_years
    /\ prev.age_years = 15
    /\ prev.outcome.value.valuation_date # last.outcome.value.valuation_date

\* the response carries a validation error for the field loc
HasError(loc) == \E i \in DOMAIN response.errors : response.errors[i].loc = loc

\* C3: the request model accepts a request if and only if its property_type
\* is one of the four types, 0 < size_sqft <= 10,000,000 and
\* 0 <= age_years <= 200; a bad type, size_sqft <= 0, size_sqft > 10,000,000,
\* age_years < 0 and age_years > 200 are each reported as a validation error
\* of their field, and size_sqft = 10,000,000 and age_years = 200 pass.
C3_ContractAccepts ==
    /\ pc = "handling" =>
          ValidInput(request.property_type, request.size_sqft, request.age_years)
    /\ pc = "done" =>
          /\ response.errors = <<>> <=>
                ValidInput(request.property_type, request.size_sqft, request.age_years)
          /\ HasError("property_type") <=>
                request.property_type \notin {"MULTIFAMILY", "RETAIL", "OFFICE", "INDUSTRIAL"}
          /\ HasError("size_sqft") <=>
                (request.size_sqft <= 0 \/ request.size_sqft > 10000000)
          /\ HasError("age_years") <=>
                (request.age_years < 0 \/ request.age_years > 200)

\* a request at both upper boundaries, accepted and handed to the handler
C3_Witness ==
    /\ pc = "handling"
    /\ request.size_sqft = 10000000
    /\ request.age_years = 200

\* C4: for a request that fails the request model's validation the calculator
\* is never invoked: the request never reaches the handler, no call of
\* calculate_value is made for it, and it ends in the 422 validation response
\* without a result.
C4_NoCalculationOnInvalid ==
    (pc # "idle"
        /\ ~ValidInput(request.property_type, request.size_sqft, request.age_years)) =>
        /\ pc # "handling"
        /\ invocations = 0
        /\ pc = "done" =>
              /\ response.status_code = 422
              /\ response.errors # <<>>
              /\ response.body = NoValue

\* a request for a RESIDENTIAL property, otherwise valid, answered with 422
C4_Witness ==
    /\ pc = "done"
    /\ request.property_type = "RESIDENTIAL"
    /\ request.size_sqft = 1 /\ request.age_years = 0
    /\ response.status_code = 422
    /\ invocations = 0

\* the response carries, for the field loc, the text raised by its validator
HasRaised(loc, text) ==
    \E i \in DOMAIN response.errors :
        response.errors[i].loc = loc /\ response.errors[i].raised = text

\* C9 as stated: at the request model size_sqft <= 0 is reported with the
\* message "Property size must be greater than 0" and age_years < 0 with the
\* message "Property age cannot be negative".
C9_LowerBoundMessages ==
    pc = "done" =>
        /\ request.size_sqft <= 0 =>
              HasRaised("size_sqft", "Property size must be greater than 0")
        /\ request.age_years < 0 =>
              HasRaised("age_years", "Property age cannot be negative")

\* size x rate as a whole amount of dollars
StatedBase(t, sz) == [w |-> sz * StatedRate(t), f |-> 0]

\* the response a request body gets when it is the only request served
AnsweredAsAlone(body, resp) ==
    IF ValidInput(body.property_type, body.size_sqft, body.age_years)
    THEN /\ resp.status_code = 200
         /\ resp.errors = <<>>
         /\ resp.body.breakdown.base_value =
                StatedBase(body.property_type, body.size_sqft)
         /\ resp.body.breakdown.depreciation_factor = StatedFactor(body.age_years)
         /\ resp.body.estimated_value =
                RoundedProduct(StatedBase(body.property_type, body.size_sqft),
                               StatedFactor(body.age_years))
         /\ resp.body.breakdown.final_value = resp.body.estimated_value
    ELSE /\ resp.status_code = 422
         /\ resp.errors # <<>>
         /\ resp.body = NoValue

\* C11: under any interleaving of the requests in flight, the shared engine's
\* rate table and depreciation constants stay as a fresh engine has them, and
\* every answered request has exactly the response it would get alone, a
\* function of its own body only.
C11_Isolation ==
    /\ engine = EngineAttributes
    /\ \A i \in Flights :
          flights[i].pc = "done" => AnsweredAsAlone(flights[i].body, flights[i].response)

\* two requests answered while both in flight, for buildings of different age
C11_Witness ==
    /\ flights[1].pc = "done" /\ flights[2].pc = "done"
    /\ flights[1].response.status_code = 200
    /\ flights[2].response.status_code = 200
    /\ flights[1].body.age_years = 15 /\ flights[2].body.age_years = 40
    /\ flights[1].response.body.valuation_date > flights[2].response.body.valuation_date

\* 0.60 x b for a whole amount b
SixtyPercent(b) ==
    [w |-> (b.w \div 10) * 6 + (((b.w % 10) * 6) \div 10),
     f |-> (((b.w % 10) * 6) % 10) * 1000]

BaseOf(c) == c.outcome.value.breakdown.base_value

\* C12: depreciation is capped at 40%: every returned valuation at an age
\* >= 40 has depreciation_factor 0.40 and estimated_value 0.60 x base_value,
\* and two valuations of the same type and size at ages >= 40 have the same
\* estimated_value.
C12_CappedAtForty ==
    /\ (IsCalc(last) /\ Returned(last) /\ last.age_years >= 40) =>
          /\ Factor(last) = [w |-> 0, f |-> 4000]
          /\ Est(last) = SixtyPercent(BaseOf(last))
    /\ (SameProperty(prev, last) /\ prev.age_years >= 40 /\ last.age_years >= 40) =>
          Est(prev) = Est(last)

\* a building valued at 250 years and then at 40 years
C12_Witness ==
    /\ SameProperty(prev, last)
    /\ prev.age_years = 250 /\ last.age_years = 40
    /\ Factor(prev) = [w |-> 0, f |-> 4000]

\* C13: for every valid type and size, age_years = 0 yields a result with
\* depreciation_factor 0 and estimated_value equal to base_value.
C13_NewBuilding ==
    (IsCalc(last) /\ last.property_type \in PropertyType
        /\ last.size_sqft > 0 /\ last.age_years = 0) =>
        /\ Returned(last)
        /\ Factor(last) = FloatZero
        /\ Est(last) = BaseOf(last)
        /\ Est(last) = StatedBase(last.property_type, last.size_sqft)

\* a new building of the largest valid size, valued
C13_Witness ==
    /\ IsCalc(last) /\ Returned(last)
    /\ last.age_years = 0 /\ last.size_sqft = 10000000

\* C14: for every input the calculator accepts (a valid type, size_sqft > 0,
\* age_years >= 0) the result is built: neither response model refuses it,
\* and its estimated_value is > 0.
C14_PositiveValue ==
    (IsCalc(last) /\ last.property_type \in PropertyType
        /\ last.size_sqft > 0 /\ last.age_years >= 0) =>
        /\ last.outcome.kind # "ValidationError"
        /\ Returned(last)
        /\ FloatLess(FloatZero, Est(last))

\* the smallest building at the full depreciation, valued above zero
C14_Witness ==
    /\ IsCalc(last) /\ Returned(last)
    /\ last.size_sqft = 7 /\ last.age_years = 250
    /\ last.property_type = "INDUSTRIAL"
    /\ Est(last) = [w |-> 420, f |-> 0]

\* the handler has run for the request and the calculator's outcome is last
Handled == pc = "done" /\ invocations = 1 /\ IsCalc(last)

\* C15: when calculate_value fails with anything other than a ValueError, the
\* valuation operation answers 500 with one fixed text, which carries nothing
\* of the failure, and no result.
C15_GenericInternalError ==
    (Handled /\ ~Returned(last) /\ ~IsValueError(last.outcome.kind)) =>
        /\ response.status_code = 500
        /\ response.detail = "Internal server error during valuation calculation"
        /\ response.detail # last.outcome.msg
        /\ response.body = NoValue

\* the handler answering a request whose type the rate table does not hold
C15_Witness ==
    /\ Handled
    /\ last.outcome.kind = "KeyError"
    /\ last.outcome.msg = "multifamily"
    /\ response.status_code = 500

\* C16: when calculate_value raises a ValueError with message m, the valuation
\* operation answers 422 with detail exactly m and no result, never 500.
C16_ValidationErrorResponse ==
    (Handled /\ IsValueError(last.outcome.kind)) =>
        /\ response.status_code = 422
        /\ response.detail = last.outcome.msg
        /\ response.detail # ""
        /\ response.body = NoValue

\* the handler answering a request of size 0
C16_Witness ==
    /\ Handled
    /\ request.size_sqft = 0
    /\ last.outcome.kind = "ValueError"
    /\ response.status_code = 422
    /\ response.detail = "Property size must be greater than 0"

\* a complete result: all four fields, and the three of the breakdown
CompleteResult(v) ==
    /\ DOMAIN v = {"estimated_value", "valuation_date", "methodology", "breakdown"}
    /\ DOMAIN v.breakdown = {"base_value", "depreciation_factor", "final_value"}

\* C17: every request ends in exactly one outcome, a complete result with
\* status 200 or an error response carrying no result; there is no response
\* before the request is done, and calculate_value is called at most once
\* for it.
C17_NoPartialSuccess ==
    /\ invocations <= 1
    /\ pc # "done" => response = NoResponse
    /\ pc = "done" =>
          \/ /\ response.status_code = 200
             /\ CompleteResult(response.body)
             /\ response.errors = <<>> /\ response.detail = ""
             /\ invocations = 1
          \/ /\ response.status_code \in {422, 500}
             /\ response.body = NoValue
             /\ (response.errors # <<>> \/ response.detail # "")

\* a request answered with a result after one call of the calculator
C17_Witness ==
    /\ pc = "done"
    /\ response.status_code = 200
    /\ invocations = 1
    /\ request.size_sqft = 10000000

\* C18: get_base_rate returns 200, 150, 180 and 100 for MULTIFAMILY, RETAIL,
\* OFFICE and INDUSTRIAL; every result's base_value is size_sqft x that rate,
\* whatever the age.
C18_BaseRates ==
    /\ (last.op = "get_base_rate" /\ last.property_type \in PropertyType) =>
          /\ Returned(last)
          /\ ToFloat(last.outcome.value) =
                 [w |-> StatedRate(last.property_type), f |-> 0]
    /\ (IsCalc(last) /\ Returned(last)) =>
          BaseOf(last) = StatedBase(last.property_type, last.size_sqft)
    /\ (prev.op = "get_base_rate" /\ Returned(prev) /\ IsCalc(last) /\ Returned(last)
            /\ prev.property_type = last.property_type) =>
          BaseOf(last) = [w |-> last.size_sqft * prev.outcome.value.w, f |-> 0]
    /\ SameProperty(prev, last) => BaseOf(prev) = BaseOf(last)

\* the rate of OFFICE looked up, then an OFFICE building valued
C18_Witness ==
    /\ prev.op = "get_base_rate" /\ prev.property_type = "OFFICE"
    /\ IsCalc(last) /\ Returned(last) /\ last.property_type = "OFFICE"
    /\ last.size_sqft = 7
    /\ BaseOf(last) = [w |-> 1260, f |-> 0]

\* C19: the methodology of every result is exactly
\* "Base rate ($<rate>/sqft) with <p>% age depreciation", <rate> the base rate
\* of the property type and <p> min(age_years, 40) followed by ".0"; it does
\* not depend on size_sqft.
C19_Methodology ==
    /\ (IsCalc(last) /\ Returned(last)) =>
          last.outcome.value.methodology =
              "Base rate ($" \o ToString(StatedRate(last.property_type))
                  \o "/sqft) with " \o ToString(MinOf(last.age_years, 40))
                  \o ".0% age depreciation"
    /\ (IsCalc(prev) /\ IsCalc(last) /\ Returned(prev) /\ Returned(last)
            /\ prev.property_type = last.property_type
            /\ prev.age_years = last.age_years) =>
          prev.outcome.value.methodology = last.outcome.value.methodology

\* the same type and age valued at two sizes, with the text of the example
C19_Witness ==
    /\ IsCalc(prev) /\ IsCalc(last) /\ Returned(prev) /\ Returned(last)
    /\ prev.size_sqft # last.size_sqft
    /\ prev.property_type = "MULTIFAMILY" /\ last.property_type = "MULTIFAMILY"
    /\ prev.age_years = 15 /\ last.age_years = 15
    /\ last.outcome.value.methodology =
           "Base rate ($200/sqft) with 15.0% age depreciation"

\* C20: calculate_value called directly with size_sqft > 10,000,000 or
\* age_years > 200 (a valid type, size_sqft > 0) returns a result by the same
\* formula, with depreciation_factor 0.40 when age_years > 200.
C20_NoUpperBoundInEngine ==
    (IsCalc(last) /\ last.property_type \in PropertyType
        /\ last.size_sqft > 0 /\ last.age_years >= 0
        /\ (last.size_sqft > 10000000 \/ last.age_years > 200)) =>
        /\ Returned(last)
        /\ BaseOf(last) = StatedBase(last.property_type, last.size_sqft)
        /\ Factor(last) = StatedFactor(last.age_years)
        /\ last.age_years > 200 => Factor(last) = [w |-> 0, f |-> 4000]
        /\ Est(last) = RoundedProduct(BaseOf(last), Factor(last))
        /\ Est(last) = last.outcome.value.breakdown.final_value

\* a building beyond both bounds of the request model, valued
C20_Witness ==
    /\ IsCalc(last) /\ Returned(last)
    /\ last.size_sqft = 10000001 /\ last.age_years = 201
    /\ last.property_type = "MULTIFAMILY"
    /\ Est(last) = [w |-> 1200000120, f |-> 0]

\* C21: in every result of calculate_value the depreciation_factor lies in
\* [0, 1], indeed in [0, 0.40], and is an exact multiple of 0.01; the
\* breakdown model's 0..1 constraint never refuses a result the calculator
\* builds.
C21_FactorInRange ==
    (IsCalc(last) /\ last.property_type \in PropertyType
        /\ last.size_sqft > 0 /\ last.age_years >= 0) =>
        /\ last.outcome.kind # "ValidationError"
        /\ Returned(last)
        /\ FloatLeq(FloatZero, Factor(last))
        /\ FloatLeq(Factor(last), FloatOne)
        /\ FloatLeq(Factor(last), [w |-> 0, f |-> 4000])
        /\ Factor(last).w = 0
        /\ Factor(last).f % 100 = 0

\* a 250 year old building valued, its factor at the top of the interval
C21_Witness ==
    /\ IsCalc(last) /\ Returned(last)
    /\ last.age_years = 250
    /\ last.property_type = "RETAIL"
    /\ Factor(last) = [w |-> 0, f |-> 4000]

\* the call values a building of the given type and age, of some size > 0
Values(c, t, a) ==
    /\ IsCalc(c)
    /\ c.property_type = t
    /\ c.age_years = a
    /\ c.size_sqft > 0

\* C22: for every size, a 50 year old INDUSTRIAL property is valued strictly
\* lower than a new (age 0) MULTIFAMILY property of the same size; both
\* valuations return a result.
C22_OldIndustrialBelowNewMultifamily ==
    /\ (Values(last, "INDUSTRIAL", 50) \/ Values(last, "MULTIFAMILY", 0)) =>
          Returned(last)
    /\ (Values(prev, "INDUSTRIAL", 50) /\ Values(last, "MULTIFAMILY", 0)
            /\ prev.size_sqft = last.size_sqft) =>
          FloatLess(Est(prev), Est(last))
    /\ (Values(prev, "MULTIFAMILY", 0) /\ Values(last, "INDUSTRIAL", 50)
            /\ prev.size_sqft = last.size_sqft) =>
          FloatLess(Est(last), Est(prev))

\* the 100,000 sqft scenario: 6,000,000 for the old industrial building, then
\* 20,000,000 for the new multifamily one
C22_Witness ==
    /\ Values(prev, "INDUSTRIAL", 50) /\ Values(last, "MULTIFAMILY", 0)
    /\ prev.size_sqft = 100000 /\ last.size_sqft = 100000
    /\ Est(prev) = [w |-> 6000000, f |-> 0]
    /\ Est(last) = [w |-> 20000000, f |-> 0]

\* C23: every request the request model accepts (a valid type,
\* 0 < size_sqft <= 10,000,000, 0 <= age_years <= 200) ends in a success
\* response: when the handler runs, the calculator's size and age checks pass
\* and the request's property_type string is a key of the rate table, so the
\* handler never answers 422 or 500 and every 422 comes from the request model.
C23_ValidatedSucceeds ==
    /\ pc = "handling" =>
          /\ request.size_sqft > 0 /\ request.age_years >= 0
          /\ request.property_type \in DOMAIN engine.BASE_RATES
    /\ (pc = "done"
            /\ ValidInput(request.property_type, request.size_sqft, request.age_years)) =>
          /\ invocations = 1
          /\ IsCalc(last) /\ Returned(last)
          /\ response.status_code = 200
          /\ response.body = last.outcome.value
    /\ (pc = "done" /\ invocations = 1) => response.status_code = 200
    /\ response.status_code # 500
    /\ response.status_code = 422 =>
          /\ invocations = 0
          /\ response.errors # <<>>
          /\ response.detail = ""

\* a 200 year old INDUSTRIAL building of 10,000,000 sqft, validated and valued
C23_Witness ==
    /\ pc = "done"
    /\ request.property_type = "INDUSTRIAL"
    /\ request.size_sqft = 10000000 /\ request.age_years = 200
    /\ invocations = 1
    /\ response.status_code = 200
    /\ response.body.breakdown.final_value = [w |-> 600000000, f |-> 0]

\* b x p / 100 for a whole amount b and a whole percentage p, exactly
HundredthsOf(b, p) ==
    [w |-> (b \div 100) * p + (((b % 100) * p) \div 100),
     f |-> (((b % 100) * p) % 100) * 100]

\* base_value x (1 - depreciation_factor) before the rounding step
UnroundedValue(c) ==
    DecMul(BaseValue(c.size_sqft, engine.BASE_RATES[c.property_type]),
           DecSub(Dec(1, 0, 0), DepreciationFactor(engine, c.age_years)))

\* C24: rounding never changes a value: for every input the calculator
\* accepts, the unrounded base_value is a whole number of dollars, the
\* unrounded base_value x (1 - depreciation_factor) is an exact multiple of
\* 0.01, the half-up rounding step leaves both as they are, and
\* final_value x 100 = size_sqft x rate x (100 - min(age_years, 40)) exactly.
C24_RoundingIsIdentity ==
    (IsCalc(last) /\ last.property_type \in PropertyType
        /\ last.size_sqft > 0 /\ last.age_years >= 0) =>
        LET base == BaseValue(last.size_sqft, engine.BASE_RATES[last.property_type])
        IN  /\ base.f = 0
            /\ DecEq(QuantizeHalfUp(base), base)
            /\ UnroundedValue(last).f % 100 = 0
            /\ DecEq(QuantizeHalfUp(UnroundedValue(last)), UnroundedValue(last))
            /\ Returned(last)
            /\ BaseOf(last) = ToFloat(base)
            /\ Est(last) = ToFloat(UnroundedValue(last))
            /\ last.outcome.value.breakdown.final_value =
                   HundredthsOf(last.size_sqft * StatedRate(last.property_type),
                                100 - MinOf(last.age_years, 40))

\* the rounding test's building: OFFICE, 3333 sqft, 7 years, worth 557,944.20
C24_Witness ==
    /\ IsCalc(last) /\ Returned(last)
    /\ last.property_type = "OFFICE"
    /\ last.size_sqft = 3333 /\ last.age_years = 7
    /\ Est(last) = [w |-> 557944, f |-> 2000]

\* C25: calculate_value checks size first, then age, then looks the type up:
\* with size_sqft <= 0 and age_years < 0 together the failure is the size
\* message, and with an unrecognized type together with an invalid size or age
\* the failure is the size or age ValueError, never the lookup's KeyError; the
\* lookup fails only when size and age have passed.
C25_CheckOrder ==
    IsCalc(last) =>
        /\ (last.size_sqft <= 0 /\ last.age_years < 0) =>
              /\ last.outcome.kind = "ValueError"
              /\ last.outcome.msg = "Property size must be greater than 0"
        /\ (last.property_type \notin PropertyType
                /\ (last.size_sqft <= 0 \/ last.age_years < 0)) =>
              /\ last.outcome.kind = "ValueError"
              /\ last.outcome.msg =
                     IF last.size_sqft <= 0
                     THEN "Property size must be greater than 0"
                     ELSE "Property age cannot be negative"
        /\ last.outcome.kind = "KeyError" =>
              /\ last.size_sqft > 0 /\ last.age_years >= 0
              /\ last.property_type \notin PropertyType

\* a call wrong in all three arguments, refused for its size
C25_Witness ==
    /\ IsCalc(last)
    /\ last.property_type = "RESIDENTIAL"
    /\ last.size_sqft = 0 /\ last.age_years = -1
    /\ last.outcome.kind = "ValueError"
    /\ last.outcome.msg = "Property size must be greater than 0"

IsRate(c) == c.op = "get_base_rate"

\* C26: the auxiliary operations agree with the full calculation: for every
\* type, size_sqft > 0 and age_years >= 0, the result's depreciation_factor
\* equals calculate_depreciation(age_years) and its base_value equals
\* size_sqft x get_base_rate(type); calculate_depreciation rejects exactly
\* the ages (age_years < 0) that calculate_value rejects for age, with the
\* same message.
C26_AuxiliaryAgree ==
    /\ (IsDep(prev) /\ IsCalc(last) /\ Returned(last)
            /\ prev.age_years = last.age_years) =>
          /\ Returned(prev)
          /\ ToFloat(prev.outcome.value) = Factor(last)
    /\ (IsRate(prev) /\ IsCalc(last) /\ Returned(last)
            /\ prev.property_type = last.property_type) =>
          /\ Returned(prev)
          /\ prev.outcome.value.f = 0
          /\ BaseOf(last) = [w |-> last.size_sqft * prev.outcome.value.w, f |-> 0]
    /\ IsDep(last) =>
          /\ Returned(last) <=> last.age_years >= 0
          /\ ~Returned(last) =>
                /\ last.outcome.kind = "ValueError"
                /\ last.outcome.msg = "Property age cannot be negative"
    /\ (IsDep(prev) /\ IsCalc(last) /\ last.size_sqft > 0
            /\ prev.age_years = last.age_years) =>
          /\ prev.outcome.kind = "ValueError" <=> last.outcome.kind = "ValueError"
          /\ prev.outcome.kind = "ValueError" => prev.outcome.msg = last.outcome.msg
          /\ prev.outcome.kind = "ValueError" <=> last.age_years < 0

\* the factor of 250 years asked for, then a building of that age valued
C26_Witness ==
    /\ IsDep(prev) /\ Returned(prev)
    /\ IsCalc(last) /\ Returned(last)
    /\ prev.age_years = 250 /\ last.age_years = 250
    /\ ToFloat(prev.outcome.value) = Factor(last)

====
